---- MODULE Spec2Model ----
(***************************************************************************)
(* Model of the DateDropQuery command-line tools:                          *)
(*   src/src/ping_waitlist.py      the Waitlist Prober                     *)
(*   src/src/cleanUniversities.py  the Domain Cleaner                      *)
(*                                                                         *)
(* Text is modelled as a sequence of one-character strings, so that        *)
(* strip(), lower() and the digit scan act on characters as the Python     *)
(* code does.  A JSON value is a tagged pair <<tag, payload>>; a mapping   *)
(* keeps its items as a sequence of <<key, value>> pairs in insertion      *)
(* order.  Optional[int] is <<>> (None) or <<v>>.                          *)
(***************************************************************************)
EXTENDS Integers, Sequences, FiniteSets, TLC

VARIABLES
    \* ---- deep_find_position harness
    obj,            \* the value handed to deep_find_position
    found,          \* its result
    dpc,            \* "input" | "done"
    \* ---- Domain Cleaner (cleanUniversities.main)
    c_args,         \* [country, dedupe]: the parsed command line
    c_pc,           \* "rows" | "done"
    c_in,           \* the input data rows consumed so far, in order
    seen,           \* main's `seen`
    c_kept,         \* main's `kept`
    dropped,        \* main's `dropped`
    filtered_country, \* main's `filtered_country`
    c_out,          \* the data rows written to the output file
    \* ---- Waitlist Prober (ping_waitlist.main)
    exists,         \* out_csv.exists()
    header,         \* the file's first line is the 8-column header line
    ledger,         \* the data lines of the output file, in order
    pc,             \* "idle" | "header" | "rows" | "attempt" | "append"
    args,           \* [inp, retries]: the command line of the current (or last) run
    completed,      \* the last run ended by printing its summary
    runs,           \* number of runs started
    idx,            \* index of the next input row
    already,        \* main's `already`
    kept, skipped, failed,
    attempt, last_status, last_text, position, ok,
    calls,          \* network calls made for the current row
    trace,          \* the outcomes of those calls, in order
    called,         \* domains for which this run made a network call
    resumed,        \* this run repeats the arguments of the completed run before it
    len0            \* number of ledger records when this run started

dvars == <<obj, found, dpc>>
cvars == <<c_args, c_pc, c_in, seen, c_kept, dropped, filtered_country, c_out>>
pvars == <<exists, header, ledger, pc, args, completed, runs, idx, already, kept, skipped,
           failed, attempt, last_status, last_text, position, ok, calls, trace,
           called, resumed, len0>>
vars == <<dvars, cvars, pvars>>

(***************************************************************************)
(* Bounds of the model                                                     *)
(***************************************************************************)
MaxStrLen == 2      \* length of the enumerated short strings
MaxItems == 2       \* items per enumerated list / mapping
MaxCleanRows == 3   \* input rows of a Cleaner run
MaxRows == 2        \* input rows of a Prober run
MaxRetries == 2     \* largest --retries
MaxRuns == 3        \* Prober runs over the same output path

(***************************************************************************)
(* Text helpers (Python str methods)                                       *)
(***************************************************************************)
None == <<>>
Some(v) == <<v>>

\* str.lower(), on ASCII letters
UpperLetters == <<"A","B","C","D","E","F","G","H","I","J","K","L","M",
                  "N","O","P","Q","R","S","T","U","V","W","X","Y","Z">>
LowerLetters == <<"a","b","c","d","e","f","g","h","i","j","k","l","m",
                  "n","o","p","q","r","s","t","u","v","w","x","y","z">>
LowerChar(c) ==
    IF \E i \in 1..26 : UpperLetters[i] = c
    THEN LowerLetters[CHOOSE i \in 1..26 : UpperLetters[i] = c]
    ELSE c

Lower(s) == [i \in 1..Len(s) |-> LowerChar(s[i])]

IsSpace(c) == c = " "

RECURSIVE LStrip(_)
LStrip(s) == IF s # <<>> /\ IsSpace(Head(s)) THEN LStrip(Tail(s)) ELSE s

RECURSIVE RStrip(_)
RStrip(s) ==
    IF s # <<>> /\ IsSpace(s[Len(s)]) THEN RStrip(SubSeq(s, 1, Len(s) - 1)) ELSE s

\* str.strip()
Strip(s) == RStrip(LStrip(s))

\* `c in s` for a one-character c
Contains(s, c) == \E i \in 1..Len(s) : s[i] = c

\* all sequences over S of length 0..n
SeqsUpTo(S, n) == UNION {[1..k -> S] : k \in 0..n}

(***************************************************************************)
(* deep_find_position (ping_waitlist.py)                                   *)
(***************************************************************************)
J_null == <<"null">>
J_bool(b) == <<"bool", b>>
J_int(n) == <<"int", n>>
\* a float whose value is whole + tenths/10
J_float(whole, tenths) == <<"float", <<whole, tenths>>>>
J_str(s) == <<"str", s>>
J_list(items) == <<"list", items>>
J_dict(items) == <<"dict", items>>

CANDIDATE_KEYS ==
    << <<"p","o","s","i","t","i","o","n">>,
       <<"r","a","n","k">>,
       <<"w","a","i","t","l","i","s","t","P","o","s","i","t","i","o","n">>,
       <<"w","a","i","t","l","i","s","t","_","p","o","s","i","t","i","o","n">>,
       <<"w","a","i","t","l","i","s","t","R","a","n","k">>,
       <<"w","a","i","t","l","i","s","t","_","r","a","n","k">>,
       <<"s","p","o","t">>,
       <<"p","l","a","c","e">>,
       <<"n","u","m","b","e","r">> >>

MinPosition == 1
MaxPosition == 1000000

\* variant of Plausible: the upper limit is missing
Plausible_NoUpperBound(v) == MinPosition <= v

\* 1 <= v <= 1_000_000
Plausible(v) == MinPosition <= v /\ v <= MaxPosition

\* str.isdigit(): the decimal digits, and digit-like characters that int()
\* rejects; "^2" stands for the single character U+00B2 (superscript two)
DecimalDigits == <<"0","1","2","3","4","5","6","7","8","9">>
IsDecimal(c) == \E i \in 1..10 : DecimalDigits[i] = c
IsDigit(c) == IsDecimal(c) \/ c = "^2"
DigitVal(c) == (CHOOSE i \in 1..10 : DecimalDigits[i] = c) - 1

RECURSIVE IntOfDigits(_, _)
IntOfDigits(d, acc) ==
    IF d = <<>> THEN acc ELSE IntOfDigits(Tail(d), acc * 10 + DigitVal(Head(d)))

\* int(d): None stands for the ValueError int() raises on a non-decimal digit
IntParse(d) ==
    IF \A i \in 1..Len(d) : IsDecimal(d[i]) THEN Some(IntOfDigits(d, 0)) ELSE None

\* the loop of lines 125-135: the maximal runs of isdigit() characters
RECURSIVE DigitRuns(_, _, _)
DigitRuns(s, current, digits) ==
    IF s = <<>>
    THEN IF current # <<>> THEN Append(digits, current) ELSE digits
    ELSE IF IsDigit(Head(s))
         THEN DigitRuns(Tail(s), Append(current, Head(s)), digits)
         ELSE IF current # <<>>
              THEN DigitRuns(Tail(s), <<>>, Append(digits, current))
              ELSE DigitRuns(Tail(s), <<>>, digits)

\* the loop of lines 137-144
RECURSIVE FirstPlausible(_)
FirstPlausible(digits) ==
    IF digits = <<>> THEN None
    ELSE LET v == IntParse(Head(digits))
         IN IF v # None /\ Plausible(v[1]) THEN v ELSE FirstPlausible(Tail(digits))

IsCandidateExact(k) == \E i \in 1..Len(CANDIDATE_KEYS) : CANDIDATE_KEYS[i] = k
IsCandidateLower(k) ==
    \E i \in 1..Len(CANDIDATE_KEYS) : Lower(CANDIDATE_KEYS[i]) = Lower(k)

RECURSIVE deep_find_position(_)
RECURSIVE FindInList(_)
RECURSIVE FirstPass(_)
RECURSIVE SecondPass(_)

\* lines 148-152
FindInList(items) ==
    IF items = <<>> THEN None
    ELSE LET v == deep_find_position(Head(items))
         IN IF v # None THEN v ELSE FindInList(Tail(items))

\* lines 156-166: items are the <<key, value>> pairs still to visit
FirstPass(items) ==
    IF items = <<>> THEN None
    ELSE LET k == Head(items)[1]
             v1 == IF IsCandidateExact(k) THEN deep_find_position(Head(items)[2]) ELSE None
             v2 == IF IsCandidateLower(k) THEN deep_find_position(Head(items)[2]) ELSE None
         IN IF v1 # None THEN v1
            ELSE IF v2 # None THEN v2
            ELSE FirstPass(Tail(items))

\* lines 169-172
SecondPass(items) ==
    IF items = <<>> THEN None
    ELSE LET v == deep_find_position(Head(items)[2])
         IN IF v # None THEN v ELSE SecondPass(Tail(items))

\* variant of FindInDict: the second pass is skipped once any key matched
FindInDict_SkipSecondPass(items) ==
    IF \E i \in 1..Len(items) : IsCandidateLower(items[i][1])
    THEN FirstPass(items)
    ELSE SecondPass(items)

\* lines 154-174
FindInDict(items) ==
    LET v == FirstPass(items)
    IN IF v # None THEN v ELSE SecondPass(items)

\* lines 109-113
FindInInt(n) == IF Plausible(n) THEN Some(n) ELSE None

\* lines 106-107
FindInBool(b) == None

\* lines 115-120
FindInFloat(f) == IF f[2] = 0 /\ Plausible(f[1]) THEN Some(f[1]) ELSE None

\* lines 122-144
FindInStr(s) == FirstPlausible(DigitRuns(s, <<>>, <<>>))

deep_find_position(o) ==
    CASE o[1] = "null" -> None
      [] o[1] = "bool" -> FindInBool(o[2])
      [] o[1] = "int" -> FindInInt(o[2])
      [] o[1] = "float" -> FindInFloat(o[2])
      [] o[1] = "str" -> FindInStr(o[2])
      [] o[1] = "list" -> FindInList(o[2])
      [] o[1] = "dict" -> FindInDict(o[2])
      [] OTHER -> None

(***************************************************************************)
(* The values deep_find_position is applied to                             *)
(***************************************************************************)
DfpChars == {"7", "0", "#", "^2"}
ShortStrs == SeqsUpTo(DfpChars, MaxStrLen)
LongStrs ==
    { <<"2","0","0","0","0","0","0">>,
      <<"1","0","0","0","0","0","0">>,
      <<"1","0","0","0","0","0","1">>,
      <<"#","1","2","3"," ","o","f"," ","5","0","0","0">>,
      <<"2","0","0","0","0","0","0"," ","5">>,
      <<"0","0","4","2">>,
      <<"7","^2"," ","9">> }
SampleInts == {-1, 0, 1, 42, 1000000, 1000001, 2000000}
SampleFloats == {<<7, 0>>, <<7, 5>>, <<0, 5>>, <<0, 0>>, <<2000000, 0>>, <<1000000, 0>>, <<-3, 0>>}

Leaves ==
    {J_null} \cup {J_bool(b) : b \in BOOLEAN}
    \cup {J_int(n) : n \in SampleInts}
    \cup {<<"float", f>> : f \in SampleFloats}
    \cup {J_str(s) : s \in ShortStrs \cup LongStrs}

CoreLeaves ==
    { J_null, J_bool(TRUE), J_int(0), J_int(5), J_int(2000000),
      J_str(<<"#","7">>), J_float(7, 5) }

K_position == <<"p","o","s","i","t","i","o","n">>
K_Position == <<"P","o","s","i","t","i","o","n">>
K_RANK == <<"R","A","N","K">>
K_data == <<"d","a","t","a">>
K_msg == <<"m","s","g">>
SampleKeys == {K_position, K_Position, K_data, K_msg}

\* the mappings of at most n items with values in V: keys are distinct
DictsOver(V, n) ==
    { J_dict(d) : d \in { e \in SeqsUpTo(SampleKeys \X V, n) :
                            \A i, j \in 1..Len(e) : i # j => e[i][1] # e[j][1] } }
ListsOver(V, n) == { J_list(l) : l \in SeqsUpTo(V, n) }

Level1 == ListsOver(CoreLeaves, MaxItems) \cup DictsOver(CoreLeaves, MaxItems)

MidValues ==
    { J_null, J_int(5), J_int(2000000), J_bool(TRUE), J_str(<<"#","7">>),
      J_list(<<J_int(9)>>),
      J_dict(<< <<K_position, J_null>> >>),
      J_dict(<< <<K_position, J_int(8)>> >>),
      J_dict(<< <<K_msg, J_int(3)>> >>),
      J_dict(<< <<K_data, J_int(0)>>, <<K_RANK, J_int(4)>> >>) }

Level2 == ListsOver(MidValues, MaxItems) \cup DictsOver(MidValues, MaxItems)

JsonValues == Leaves \cup Level1 \cup Level2

(***************************************************************************)
(* Initial values of the three groups of variables                         *)
(***************************************************************************)
DfpIdle == obj = J_null /\ found = None /\ dpc = "done"

\* apply deep_find_position to the chosen value
DfpSearch ==
    /\ dpc = "input"
    /\ found' = deep_find_position(obj)
    /\ dpc' = "done"
    /\ UNCHANGED obj
    /\ UNCHANGED <<cvars, pvars>>

(***************************************************************************)
(* Domain Cleaner (cleanUniversities.py)                                   *)
(***************************************************************************)
\* norm(s): (s or "").strip()
clean_norm(s) == Strip(s)

norm_lower(s) == Lower(clean_norm(s))

RECURSIVE StripTrailingDots(_)
StripTrailingDots(d) ==
    IF d # <<>> /\ d[Len(d)] = "." THEN StripTrailingDots(SubSeq(d, 1, Len(d) - 1)) ELSE d

norm_domain(d) ==
    LET d1 == Lower(clean_norm(d))
        d2 == IF d1 # <<>> /\ Head(d1) = "@" THEN Tail(d1) ELSE d1
    IN StripTrailingDots(d2)

is_valid_domain(d) ==
    IF d = <<>> THEN FALSE
    ELSE IF Contains(d, " ") THEN FALSE
    ELSE IF ~Contains(d, ".") THEN FALSE
    ELSE IF Head(d) = "." \/ d[Len(d)] = "." THEN FALSE
    ELSE TRUE

\* variant of IsDuplicate: the seen set is never consulted
IsDuplicate_Never(dedupe, domain, seenSet) == FALSE

\* the dedupe test of lines 79-85: the row is a duplicate to drop
IsDuplicate(dedupe, domain, seenSet) == dedupe /\ domain \in seenSet

\* lines 66-85: what happens to one input row
Classify(row, a, seenSet) ==
    LET name == clean_norm(row.name)
        country == clean_norm(row.country)
        domain == norm_domain(row.domain)
    IN IF norm_lower(country) # norm_lower(a.country) THEN "filtered"
       ELSE IF name = <<>> \/ ~is_valid_domain(domain) THEN "dropped"
       ELSE IF IsDuplicate(a.dedupe, domain, seenSet) THEN "dropped"
       ELSE "kept"

\* variant of Tally: a dropped row is not counted
Tally_DropUncounted(kind, k, f, d) ==
    CASE kind = "filtered" -> <<k, f + 1, d>>
      [] kind = "dropped" -> <<k, f, d>>
      [] kind = "kept" -> <<k + 1, f, d>>

\* lines 72, 76, 83, 93: the counters <<kept, filtered_country, dropped>> after a row
Tally(kind, k, f, d) ==
    CASE kind = "filtered" -> <<k, f + 1, d>>
      [] kind = "dropped" -> <<k, f, d + 1>>
      [] kind = "kept" -> <<k + 1, f, d>>

\* lines 87-92
OutRow(row) ==
    LET domain == norm_domain(row.domain)
    IN [name |-> clean_norm(row.name), country |-> clean_norm(row.country),
        domain |-> domain, email_example |-> <<"a","b","c","@">> \o domain]

Row3(n, c, d) == [name |-> n, country |-> c, domain |-> d]
C_US == <<"U","S">>
C_us == <<"u","s"," ">>
C_CA == <<"C","A">>
CleanCountries == {<<" ","u","S">>, C_CA}
CleanInputRows ==
    { Row3(<<"U">>, C_US, <<"a",".","b">>),
      Row3(<<"V">>, C_US, <<"A",".","b">>),
      Row3(<<"W">>, C_us, <<"@","a",".","b",".">>),
      Row3(<<"V">>, C_CA, <<"a",".","b">>),
      Row3(<<" ">>, C_US, <<"a",".","b">>),
      Row3(<<"U">>, C_US, <<"a",".",".">>),
      Row3(<<"U">>, C_US, <<".","b">>),
      Row3(<<"U">>, C_US, <<"a"," ","b",".","c">>),
      Row3(<<"V">>, C_US, <<" ","c",".","d","."," ">>),
      Row3(<<"U">>, C_US, <<>>) }

CleanIdle ==
    /\ c_args = [country |-> C_CA, dedupe |-> FALSE]
    /\ c_pc = "done" /\ c_in = <<>> /\ seen = {}
    /\ c_kept = 0 /\ dropped = 0 /\ filtered_country = 0 /\ c_out = <<>>

\* lines 41-63: the state when the row loop starts
CleanInit ==
    /\ c_args \in [country : CleanCountries, dedupe : BOOLEAN]
    /\ c_pc = "rows" /\ c_in = <<>> /\ seen = {}
    /\ c_kept = 0 /\ dropped = 0 /\ filtered_country = 0 /\ c_out = <<>>

\* lines 65-93: one iteration of `for row in reader`
CleanRow(row) ==
    /\ c_pc = "rows"
    /\ Len(c_in) < MaxCleanRows
    /\ LET kind == Classify(row, c_args, seen)
           t == Tally(kind, c_kept, filtered_country, dropped)
       IN /\ c_kept' = t[1]
          /\ filtered_country' = t[2]
          /\ dropped' = t[3]
          /\ seen' = IF kind = "kept" /\ c_args.dedupe
                     THEN seen \cup {norm_domain(row.domain)} ELSE seen
          /\ c_out' = IF kind = "kept" THEN Append(c_out, OutRow(row)) ELSE c_out
    /\ c_in' = Append(c_in, row)
    /\ UNCHANGED <<c_args, c_pc>>
    /\ UNCHANGED <<dvars, pvars>>

\* lines 95-99: the input is exhausted, the summary is printed
CleanDone ==
    /\ c_pc = "rows"
    /\ c_pc' = "done"
    /\ UNCHANGED <<c_args, c_in, seen, c_kept, dropped, filtered_country, c_out>>
    /\ UNCHANGED <<dvars, pvars>>

(***************************************************************************)
(* Waitlist Prober (ping_waitlist.py)                                      *)
(***************************************************************************)
\* norm(s): (s or "").strip()
norm(s) == Strip(s)

\* A response body: its verbatim text, the first character of text.strip()
\* ("" when that is empty), what json.loads makes of the stripped text and of
\* each of its lines (None stands for json.JSONDecodeError), and which lines
\* are blank.
Line(v) == [blank |-> FALSE, json |-> v]
BlankLine == [blank |-> TRUE, json |-> None]
Body(t, f, w, ls) == [text |-> t, first |-> f, whole |-> w, lines |-> ls]

V_pos42 == J_dict(<< <<K_position, J_int(42)>> >>)
V_data0 == J_dict(<< <<K_data, J_int(0)>> >>)
V_pos7 == J_dict(<< <<K_position, J_int(7)>> >>)
V_msg == J_dict(<< <<K_msg, J_str(<<"#","7">>)>> >>)

B_obj == Body("{\"position\":42}", "{", Some(V_pos42), <<Line(Some(V_pos42))>>)
B_jsonl ==
    Body("{\"data\":0}\n\n{\"position\":7}\n", "{", None,
         <<Line(Some(V_data0)), BlankLine, Line(Some(V_pos7))>>)
B_pretty ==
    Body("{\n \"msg\": \"#7\"\n}", "{", Some(V_msg),
         <<Line(None), Line(None), Line(None)>>)
B_num == Body("17", "1", Some(J_int(17)), <<Line(Some(J_int(17)))>>)
B_empty == Body("", "", None, <<>>)
B_html == Body("<html>Bad Gateway</html>", "<", None, <<Line(None)>>)
B_trunc == Body("{\"position\":", "{", None, <<Line(None)>>)

\* lines 89-95: None when a json.loads(line) raises
RECURSIVE ParseLines(_, _)
ParseLines(ls, out) ==
    IF ls = <<>> THEN Some(out)
    ELSE IF Head(ls).blank THEN ParseLines(Tail(ls), out)
    ELSE IF Head(ls).json = None THEN None
    ELSE ParseLines(Tail(ls), Append(out, Head(ls).json[1]))

\* parse_jsonl(text): Some(list of values), or None for a JSONDecodeError
\* that leaves the function
parse_jsonl(b) ==
    IF b.first = "" THEN Some(<<>>)
    ELSE IF b.first \in {"[", "{"} /\ b.whole # None THEN Some(<<b.whole[1]>>)
    ELSE ParseLines(b.lines, <<>>)

NetworkErrorText == "{\"error\":\"network\",\"detail\":\"...\"}"
ExceptionText == "{\"error\":\"exception\",\"detail\":\"...\"}"

\* what one call_waitlist (line 258) does: a response, a requests.Timeout /
\* requests.ConnectionError, or any other exception
Response(st, b) == [kind |-> "response", status |-> st, body |-> b]
NetworkError == [kind |-> "network", status |-> 0, body |-> B_empty]
OtherException == [kind |-> "exception", status |-> 0, body |-> B_empty]

\* variant of TryAttempt: a network error ends the loop like any other exception
TryAttempt_NoRetry(o, att, retries, cur) ==
    IF o.kind = "response" /\ parse_jsonl(o.body) # None
    THEN [last_status |-> o.status, last_text |-> o.body.text,
          position |-> deep_find_position(J_list(parse_jsonl(o.body)[1])),
          ok |-> TRUE, attempt |-> att, next |-> "append"]
    ELSE [last_status |-> 0,
          last_text |-> IF o.kind = "network" THEN NetworkErrorText ELSE ExceptionText,
          position |-> cur.position, ok |-> cur.ok,
          attempt |-> att, next |-> "append"]

\* lines 256-274: one iteration of the retry loop.  cur holds last_status,
\* last_text, position and ok; the result adds the next attempt index and
\* where control goes ("attempt": next iteration, "append": line 276)
TryAttempt(o, att, retries, cur) ==
    IF o.kind = "response"
    THEN LET parsed == parse_jsonl(o.body)
         IN IF parsed # None
            THEN [last_status |-> o.status, last_text |-> o.body.text,
                  position |-> deep_find_position(J_list(parsed[1])),
                  ok |-> TRUE, attempt |-> att, next |-> "append"]
            ELSE \* JSONDecodeError is caught by `except Exception` (271-274)
                 [last_status |-> 0, last_text |-> ExceptionText,
                  position |-> cur.position, ok |-> cur.ok,
                  attempt |-> att, next |-> "append"]
    ELSE IF o.kind = "network"
    THEN [last_status |-> 0, last_text |-> NetworkErrorText,
          position |-> cur.position, ok |-> cur.ok,
          attempt |-> IF att < retries THEN att + 1 ELSE att,
          next |-> IF att < retries THEN "attempt" ELSE "append"]
    ELSE [last_status |-> 0, last_text |-> ExceptionText,
          position |-> cur.position, ok |-> cur.ok,
          attempt |-> att, next |-> "append"]

\* variant of append_result: a failed row (status 0) is not written
append_result_SkipFailed(rows, row, email_used, pos, http_status, raw_response) ==
    IF http_status = 0 THEN rows
    ELSE Append(rows, [domain |-> row.domain, email_used |-> email_used,
                       waitlist_position |-> pos, http_status |-> http_status,
                       raw_response |-> raw_response])

\* append_result: the file's data lines after the append
append_result(rows, row, email_used, pos, http_status, raw_response) ==
    Append(rows, [domain |-> row.domain, email_used |-> email_used,
                  waitlist_position |-> pos, http_status |-> http_status,
                  raw_response |-> raw_response])

DomainWord == <<"d","o","m","a","i","n">>

\* the rows csv.DictReader yields and whether they have a "domain" column:
\* without the header line the first data line is taken for the field names,
\* and its fourth name is the domain it holds
ReaderRows(h, rows) == IF h \/ rows = <<>> THEN rows ELSE Tail(rows)
ReaderHasDomain(h, rows) == h \/ (rows # <<>> /\ rows[1].domain = DomainWord)

\* load_already_processed(out_csv)
load_already_processed(ex, h, rows) ==
    IF ~ex THEN {}
    ELSE IF ~ReaderHasDomain(h, rows) THEN {}
    ELSE LET r == ReaderRows(h, rows)
         IN { Lower(norm(r[i].domain)) : i \in { j \in 1..Len(r) : norm(r[j].domain) # <<>> } }

\* lines 233-238
NormRow(row0) ==
    [domain |-> Lower(norm(row0.domain)), email_example |-> norm(row0.email_example)]

InRow(d, e) == [domain |-> d, email_example |-> e]
E_abc == <<"a","b","c","@","x">>
ProbeRowsSmall ==
    { InRow(<<"a">>, E_abc), InRow(<<"A"," ">>, E_abc), InRow(<<"b">>, E_abc) }
ProbeRows ==
    ProbeRowsSmall \cup { InRow(<<" ">>, E_abc), InRow(<<"a">>, <<>>) }

\* an input CSV: its data rows, and whether its header lacks a required column
InputsOver(R) ==
    [missing : {FALSE}, rows : SeqsUpTo(R, MaxRows)]
    \cup { [missing |-> TRUE, rows |-> << InRow(<<"a">>, E_abc) >>] }

ProbeInputs == InputsOver(ProbeRows)
ResumeInputs == InputsOver(ProbeRowsSmall)
ResumeRetries == {1}

AllOutcomes ==
    { NetworkError, OtherException,
      Response(200, B_obj), Response(200, B_jsonl), Response(200, B_pretty),
      Response(200, B_num), Response(500, B_empty), Response(502, B_html),
      Response(200, B_trunc), Response(404, B_obj) }
FewOutcomes == { NetworkError, Response(200, B_obj) }

CurRow == NormRow(args.inp.rows[idx])

ProbeIdle ==
    /\ exists = FALSE /\ header = FALSE /\ ledger = <<>>
    /\ pc = "idle"
    /\ args = [inp |-> [missing |-> FALSE, rows |-> <<>>], retries |-> 0]
    /\ completed = FALSE /\ runs = 0
    /\ idx = 1 /\ already = {}
    /\ kept = 0 /\ skipped = 0 /\ failed = 0
    /\ attempt = 0 /\ last_status = 0 /\ last_text = "" /\ position = None /\ ok = FALSE
    /\ calls = 0 /\ trace = <<>> /\ called = {}
    /\ resumed = FALSE /\ len0 = 0

\* lines 217-230 once the output file has its first line settled: load the
\* processed set and check the input header
LoadAndCheck(inp, h, rows) ==
    /\ already' = load_already_processed(TRUE, h, rows)
    /\ IF inp.missing
       THEN pc' = "idle" /\ completed' = FALSE      \* ValueError: Missing required columns
       ELSE pc' = "rows" /\ completed' = FALSE

\* lines 221-223 and 251-254, and the bookkeeping of calls, as a process starts
FreshCounters ==
    /\ idx' = 1 /\ kept' = 0 /\ skipped' = 0 /\ failed' = 0
    /\ attempt' = 0 /\ last_status' = 0 /\ last_text' = "" /\ position' = None /\ ok' = FALSE
    /\ calls' = 0 /\ trace' = <<>> /\ called' = {}

\* lines 200-216 (and 217-230 when the output file exists): a run starts
StartRun(inp, r, maxRuns) ==
    /\ pc = "idle"
    /\ runs < maxRuns
    /\ runs' = runs + 1
    /\ args' = [inp |-> inp, retries |-> r]
    /\ resumed' = (completed /\ args.inp = inp)
    /\ len0' = Len(ledger)
    /\ FreshCounters
    /\ IF exists
       THEN /\ LoadAndCheck(inp, header, ledger)
            /\ UNCHANGED <<exists, header, ledger>>
       ELSE \* ensure_out_header, line 60: open("w") creates the file
            /\ exists' = TRUE /\ header' = FALSE /\ ledger' = <<>>
            /\ pc' = "header" /\ already' = {} /\ completed' = FALSE
    /\ UNCHANGED <<dvars, cvars>>

\* ensure_out_header, lines 61-71: the header line reaches the file when the
\* `with` block closes it; then lines 217-230
WriteHeader ==
    /\ pc = "header"
    /\ header' = TRUE
    /\ LoadAndCheck(args.inp, TRUE, ledger)
    /\ UNCHANGED <<exists, ledger, args, runs, idx, kept, skipped, failed, attempt,
                   last_status, last_text, position, ok, calls, trace, called,
                   resumed, len0>>
    /\ UNCHANGED <<dvars, cvars>>

\* lines 232-254: the next input row, up to the start of its retry loop
NextRow ==
    /\ pc = "rows"
    /\ idx <= Len(args.inp.rows)
    /\ LET row == CurRow
       IN IF row.domain = <<>> \/ row.email_example = <<>> \/ row.domain \in already
          THEN /\ skipped' = skipped + 1
               /\ idx' = idx + 1
               /\ UNCHANGED <<pc, attempt, last_status, last_text, position, ok,
                              calls, trace>>
          ELSE /\ last_status' = 0 /\ last_text' = "" /\ position' = None /\ ok' = FALSE
               /\ attempt' = 0 /\ calls' = 0 /\ trace' = <<>>
               /\ pc' = "attempt"
               /\ UNCHANGED <<skipped, idx>>
    /\ UNCHANGED <<exists, header, ledger, args, completed, runs, already, kept,
                   failed, called, resumed, len0>>
    /\ UNCHANGED <<dvars, cvars>>

\* lines 256-274: one call to the endpoint and what the loop does with it
Attempt(o) ==
    /\ pc = "attempt"
    /\ calls' = calls + 1
    /\ trace' = Append(trace, o)
    /\ called' = called \cup {CurRow.domain}
    /\ LET n == TryAttempt(o, attempt, args.retries,
                           [last_status |-> last_status, last_text |-> last_text,
                            position |-> position, ok |-> ok])
       IN /\ last_status' = n.last_status
          /\ last_text' = n.last_text
          /\ position' = n.position
          /\ ok' = n.ok
          /\ attempt' = n.attempt
          /\ pc' = n.next
    /\ UNCHANGED <<exists, header, ledger, args, completed, runs, idx, already, kept,
                   skipped, failed, resumed, len0>>
    /\ UNCHANGED <<dvars, cvars>>

\* lines 276-284: record the row and move on
AppendResult ==
    /\ pc = "append"
    /\ ledger' = append_result(ledger, CurRow, CurRow.email_example, position,
                               last_status, last_text)
    /\ IF ok THEN kept' = kept + 1 /\ failed' = failed
             ELSE failed' = failed + 1 /\ kept' = kept
    /\ already' = already \cup {CurRow.domain}
    /\ idx' = idx + 1
    /\ pc' = "rows"
    /\ UNCHANGED <<exists, header, args, completed, runs, skipped, attempt,
                   last_status, last_text, position, ok, calls, trace, called,
                   resumed, len0>>
    /\ UNCHANGED <<dvars, cvars>>

\* lines 286-290: the input is exhausted, the summary is printed and the
\* process exits
Finish ==
    /\ pc = "rows"
    /\ idx > Len(args.inp.rows)
    /\ pc' = "idle"
    /\ completed' = TRUE
    /\ already' = {} /\ resumed' = FALSE /\ len0' = Len(ledger)
    /\ FreshCounters
    /\ UNCHANGED <<exists, header, ledger, args, runs>>
    /\ UNCHANGED <<dvars, cvars>>

\* the process is killed: the file stays as it is, the memory is lost
Kill ==
    /\ pc # "idle"
    /\ pc' = "idle"
    /\ completed' = FALSE
    /\ args' = [inp |-> [missing |-> FALSE, rows |-> <<>>], retries |-> 0]
    /\ already' = {} /\ resumed' = FALSE /\ len0' = Len(ledger)
    /\ FreshCounters
    /\ UNCHANGED <<exists, header, ledger, runs>>
    /\ UNCHANGED <<dvars, cvars>>

(***************************************************************************)
(* Specifications                                                          *)
(***************************************************************************)
\* the command line of a run: an input CSV and --retries
StartOnce ==
    /\ pc = "idle"
    /\ \E inp \in ProbeInputs, r \in 0..MaxRetries : StartRun(inp, r, 1)

StartAgain ==
    /\ pc = "idle"
    /\ \E inp \in ResumeInputs, r \in ResumeRetries : StartRun(inp, r, MaxRuns)

\* one Prober run from an absent output file, every kind of call outcome
Init == DfpIdle /\ CleanIdle /\ ProbeIdle

Next ==
    \/ StartOnce
    \/ WriteHeader
    \/ NextRow
    \/ \E o \in AllOutcomes : Attempt(o)
    \/ AppendResult
    \/ Finish

Spec == Init /\ [][Next]_vars

\* successive Prober runs over one output path, each complete or killed
NextResume ==
    \/ StartAgain
    \/ WriteHeader
    \/ NextRow
    \/ \E o \in FewOutcomes : Attempt(o)
    \/ AppendResult
    \/ Finish
    \/ Kill

SpecResume == Init /\ [][NextResume]_vars

\* the Cleaner's row loop
InitCleaner == DfpIdle /\ CleanInit /\ ProbeIdle

NextCleaner ==
    \/ \E row \in CleanInputRows : CleanRow(row)
    \/ CleanDone

SpecCleaner == InitCleaner /\ [][NextCleaner]_vars

\* deep_find_position applied to one value
InitDfp == obj \in JsonValues /\ found = None /\ dpc = "input" /\ CleanIdle /\ ProbeIdle

NextDfp == DfpSearch

SpecDfp == InitDfp /\ [][NextDfp]_vars

(***************************************************************************)
(* Properties                                                              *)
(***************************************************************************)
Min(S) == CHOOSE x \in S : \A y \in S : x <= y
Last(q) == q[Len(q)]
RowDomains(rows) == { rows[i].domain : i \in 1..Len(rows) }

\* ------------------------------------------------------------------ C1
\* the step that records a row: AppendResult
AppendStep == pc = "append" /\ pc' = "rows"

\* C1: a run that repeats the input of the completed run before it, on the
\* same output path, makes no network call for a domain that already has a
\* ledger row, and leaves the number of ledger rows unchanged.
C1_Resumable ==
    resumed =>
        /\ called \cap RowDomains(SubSeq(ledger, 1, len0)) = {}
        /\ Len(ledger) = len0

\* ------------------------------------------------------------------ C2
\* a body that is present and is neither one JSON value nor JSON lines
Malformed(b) ==
    /\ b.text # ""
    /\ b.whole = None
    /\ \E i \in 1..Len(b.lines) : ~b.lines[i].blank /\ b.lines[i].json = None

\* C2: a response with a malformed body is recorded as it came (real status,
\* verbatim body, no position), and a recorded http_status of 0 means the
\* last attempt obtained no HTTP response.
C2_MalformedRecordedAsIs ==
    [][AppendStep =>
        LET o == Last(trace)
            r == Last(ledger')
        IN /\ (o.kind = "response" /\ Malformed(o.body)) =>
                  /\ r.http_status = o.status
                  /\ r.raw_response = o.body.text
                  /\ r.waitlist_position = None
           /\ r.http_status = 0 => o.kind # "response"]_vars

\* ------------------------------------------------------------------ C3
\* the calls of the current row were k network failures and then a response
FailuresThenResponse ==
    /\ trace # <<>>
    /\ Last(trace).kind = "response"
    /\ \A i \in 1..(Len(trace) - 1) : trace[i].kind = "network"

\* C3: k <= retries network failures followed by a response make exactly k+1
\* calls and one ledger row, which carries the status and body of that
\* response; the row counts as processed, not failed.
C3_RetryThenSuccess ==
    [][(AppendStep /\ FailuresThenResponse) =>
        LET o == Last(trace)
            r == Last(ledger')
        IN /\ Len(trace) - 1 <= args.retries
           /\ calls = Len(trace)
           /\ Len(ledger') = Len(ledger) + 1
           /\ r.domain = CurRow.domain
           /\ r.http_status = o.status
           /\ r.raw_response = o.body.text
           /\ kept' = kept + 1
           /\ failed' = failed]_vars

\* ------------------------------------------------------------------ C4
AllNetwork == trace # <<>> /\ \A i \in 1..Len(trace) : trace[i].kind = "network"
EndsInException ==
    /\ trace # <<>>
    /\ Last(trace).kind = "exception"
    /\ \A i \in 1..(Len(trace) - 1) : trace[i].kind = "network"

\* C4: when every call of a row fails with a network error there are exactly
\* retries+1 calls, then one ledger row with status 0 and the network-error
\* text, the row counts as failed and the run goes on to the next row; any
\* other exception ends the attempts at once and is recorded as one row with
\* status 0, and the run goes on as well.
C4_RetryExhaustion ==
    [][/\ (pc = "attempt" /\ Last(trace').kind = "exception") => pc' = "append"
       /\ (pc = "attempt" /\ pc' = "attempt") =>
              (Last(trace').kind = "network" /\ calls' <= args.retries)
       /\ pc = "attempt" => ledger' = ledger
       /\ AppendStep =>
            LET r == Last(ledger')
            IN /\ Len(ledger') = Len(ledger) + 1
               /\ SubSeq(ledger', 1, Len(ledger)) = ledger
               /\ r.domain = CurRow.domain
               /\ idx' = idx + 1
               /\ AllNetwork =>
                    /\ calls = args.retries + 1
                    /\ r.http_status = 0
                    /\ r.raw_response = NetworkErrorText
                    /\ r.waitlist_position = None
                    /\ failed' = failed + 1 /\ kept' = kept
               /\ EndsInException =>
                    /\ calls = Len(trace)
                    /\ r.http_status = 0
                    /\ r.raw_response = ExceptionText
                    /\ r.waitlist_position = None
                    /\ failed' = failed + 1 /\ kept' = kept]_vars

\* a later row is in its retry loop after the first row exhausted MaxRetries+1
\* network failures and was recorded as failed
C4_Witness ==
    /\ pc = "attempt" /\ idx = 2
    /\ args.retries = MaxRetries
    /\ failed = 1 /\ Len(ledger) = 1
    /\ ledger[1].http_status = 0 /\ ledger[1].raw_response = NetworkErrorText

\* ------------------------------------------------------------------ C5
\* the domains this run has called the endpoint for and not yet recorded
Pending == called \ RowDomains(SubSeq(ledger, len0 + 1, Len(ledger)))

\* C5: a row is recorded before any call for a later row is made: whenever
\* the process might be killed, at most one domain (the one in flight) has
\* been called without a ledger row for it.
C5_CrashSafety ==
    /\ Cardinality(Pending) <= 1
    /\ pc \in {"attempt", "append"} => Pending \subseteq {CurRow.domain}
    /\ pc \in {"header", "rows"} => Pending = {}

\* a request is in flight after a retry, an earlier row of this run is
\* recorded: a kill here leaves exactly this one domain unrecorded
C5_Witness ==
    /\ pc = "attempt" /\ calls >= 1
    /\ Pending = {CurRow.domain}
    /\ Len(ledger) > len0
    /\ ENABLED Kill

\* ------------------------------------------------------------------ C6
OneCounterUp ==
    \/ c_kept' = c_kept + 1 /\ filtered_country' = filtered_country /\ dropped' = dropped
    \/ c_kept' = c_kept /\ filtered_country' = filtered_country + 1 /\ dropped' = dropped
    \/ c_kept' = c_kept /\ filtered_country' = filtered_country /\ dropped' = dropped + 1

\* C6: after any prefix of the input rows, kept + filtered_country + dropped
\* is the number of rows consumed, each row raises exactly one of the three
\* counters, and the output holds `kept` data rows.
C6_CounterConservation ==
    [][/\ c_kept + filtered_country + dropped = Len(c_in)
       /\ c_kept' + filtered_country' + dropped' = Len(c_in')
       /\ Len(c_out) = c_kept /\ Len(c_out') = c_kept'
       /\ c_in' # c_in => (Len(c_in') = Len(c_in) + 1 /\ OneCounterUp)]_vars

\* a finished run over three rows, one of each fate
C6_Witness ==
    /\ c_pc = "done" /\ Len(c_in) = 3
    /\ c_kept = 1 /\ filtered_country = 1 /\ dropped = 1

\* ------------------------------------------------------------------ C7
\* input row i passes the country filter and the name / domain checks
Passes(i) ==
    /\ Lower(Strip(c_in[i].country)) = Lower(Strip(c_args.country))
    /\ Strip(c_in[i].name) # <<>>
    /\ is_valid_domain(norm_domain(c_in[i].domain))

FirstOfDomain(i) ==
    \A j \in 1..(i - 1) :
        Passes(j) => norm_domain(c_in[j].domain) # norm_domain(c_in[i].domain)

Survives(i) == Passes(i) /\ (c_args.dedupe => FirstOfDomain(i))

RECURSIVE ExpectedOut(_)
ExpectedOut(n) ==
    IF n = 0 THEN <<>>
    ELSE IF Survives(n) THEN Append(ExpectedOut(n - 1), OutRow(c_in[n]))
    ELSE ExpectedOut(n - 1)

RECURSIVE NumLeaves(_)
NumLeaves(o) ==
    CASE o[1] = "int" -> {o[2]}
      [] o[1] = "float" -> IF o[2][2] = 0 THEN {o[2][1]} ELSE {}
      [] o[1] = "str" ->
           LET tok == DigitRuns(o[2], <<>>, <<>>)
           IN { IntOfDigits(tok[i], 0) :
                  i \in { j \in 1..Len(tok) : \A k \in 1..Len(tok[j]) : IsDecimal(tok[j][k]) } }
      [] o[1] = "list" -> UNION { NumLeaves(o[2][i]) : i \in 1..Len(o[2]) }
      [] o[1] = "dict" -> UNION { NumLeaves(o[2][i][2]) : i \in 1..Len(o[2]) }
      [] OTHER -> {}

\* C8: the result of deep_find_position is absent or an integer in
\* 1..1,000,000 that the value holds outside its booleans: an out-of-range
\* number and a boolean are never returned.
C8_RangeSafety ==
    dpc = "done" =>
        /\ found = None \/ (Len(found) = 1 /\ found[1] \in 1..1000000)
        /\ found # None => found[1] \in NumLeaves(obj)
        /\ obj[1] \in {"null", "bool"} => found = None

\* an out-of-range integer is passed over for a later in-range one
C8_Witness ==
    /\ dpc = "done"
    /\ obj = J_list(<<J_int(2000000), J_int(5)>>)
    /\ found = Some(5)

\* ------------------------------------------------------------------ C9
DictItems == obj[2]
Yield(i) == deep_find_position(DictItems[i][2])
MatchesCandidate(k) ==
    \E i \in 1..Len(CANDIDATE_KEYS) : Lower(CANDIDATE_KEYS[i]) = Lower(k)
MatchedKeys == { i \in 1..Len(DictItems) : MatchesCandidate(DictItems[i][1]) }
HitKeys == { i \in MatchedKeys : Yield(i) # None }
HitAny == { i \in 1..Len(DictItems) : Yield(i) # None }

\* C9 as stated: the second pass over all values runs only if no key of the
\* mapping matched the candidate key set.
C9_SecondPassOnlyIfNoKeyMatched ==
    (dpc = "done" /\ obj[1] = "dict") =>
        found = IF MatchedKeys # {}
                THEN (IF HitKeys # {} THEN Yield(Min(HitKeys)) ELSE None)
                ELSE (IF HitAny # {} THEN Yield(Min(HitAny)) ELSE None)

\* C9 amended: the first candidate key whose value yields a result wins; the
\* second pass runs whenever the first pass returned nothing, also when keys
\* matched, and then the first value that yields a result wins.
C9_SecondPassIfFirstPassEmpty ==
    (dpc = "done" /\ obj[1] = "dict") =>
        found = IF HitKeys # {} THEN Yield(Min(HitKeys))
                ELSE IF HitAny # {} THEN Yield(Min(HitAny))
                ELSE None

\* a candidate key matched and yielded nothing; another key's value was found
C9_Witness ==
    /\ dpc = "done" /\ obj[1] = "dict"
    /\ MatchedKeys # {} /\ HitKeys = {}
    /\ found # None

\* ------------------------------------------------------------------ C10
\* C10: no two ledger rows carry the same domain, and between rows of a run
\* the in-memory processed set is the set of domains in the ledger.
C10_LedgerInvariant ==
    /\ \A i, j \in 1..Len(ledger) : i # j => ledger[i].domain # ledger[j].domain
    /\ pc = "rows" => already = RowDomains(ledger)

====
